---- MODULE Spec2Model ----
(***************************************************************************)
(* Model of the in-memory authentication service of tclab-server:          *)
(* AuthService (register, login, findUserById) over the users array and    *)
(* the nextUserId counter, the password utilities, and the status mapping  *)
(* of the AuthController.                                                  *)
(*                                                                         *)
(* A JavaScript string is the sequence of its UTF-16 code units.  A value  *)
(* carried by a request body is a record [kind, s]: kind "string" with the *)
(* code units in s, kind "undefined" (field absent) with s = <<>>, or kind  *)
(* "number" (a non-zero JSON number, which is truthy and has no trim       *)
(* method) with s = <<>>.                                                  *)
(*                                                                         *)
(* register and login are async functions with one await each.  A call is  *)
(* two steps: the synchronous part up to the await (or up to the throw),   *)
(* and the continuation after the await.  The calls suspended at their     *)
(* await are a bag of frames (the locals the continuation closes over);    *)
(* they resume in any order.                                               *)
(*                                                                         *)
(* The service reads the wall clock once per insertion and only stores and *)
(* returns the reading; the model numbers the readings 0, 1, 2, ...        *)
(***************************************************************************)
EXTENDS Integers, Sequences, FiniteSets, Bags, TLC

\* ---------------------------------------------------------------- bounds
MaxUsers  == 2     \* registrations admitted (inserted or at their await)
MaxLogins == 1     \* logins suspended at their await at once

\* ---------------------------------------------------------------- values
Undefined == [kind |-> "undefined", s |-> <<>>]
Num == [kind |-> "number", s |-> <<>>]        \* a non-zero number, as 123456
Str(s) == [kind |-> "string", s |-> s]

\* request values the model feeds to the service (code units)
u_blank3 == Str(<<32, 32, 32>>)                         \* three spaces
u_ab     == Str(<<97, 98>>)                             \* "ab"
u_bob    == Str(<<98, 111, 98>>)                        \* "bob"
u_Bob    == Str(<<66, 111, 98>>)                        \* "Bob"
p_blank6 == Str(<<32, 32, 32, 32, 32, 32>>)             \* six spaces
p_12345  == Str(<<49, 50, 51, 52, 53>>)                 \* "12345"
p_secret == Str(<<115, 101, 99, 114, 101, 116>>)        \* "secret"
p_Secret == Str(<<83, 101, 99, 114, 101, 116>>)         \* "Secret"

Usernames == {Undefined, u_blank3, u_ab, u_bob, u_Bob}
Passwords == {Undefined, p_blank6, p_12345, p_secret, p_Secret}

\* further request values, fed to calls that are awaited one at a time
u_empty  == Str(<<>>)                                   \* ""
u_bob_   == Str(<<98, 111, 98, 32>>)                    \* "bob "
p_empty  == Str(<<>>)                                   \* ""
p_hi1    == Str(<<55296, 97, 97, 97, 97, 97>>)          \* "\uD800aaaaa"
p_hi2    == Str(<<55297, 97, 97, 97, 97, 97>>)          \* "\uD801aaaaa"
p_cred   == Str(<<99, 50, 86, 106, 99, 109, 86, 48>>)   \* "c2VjcmV0"

AwaitedUsernames == {Num, u_empty, u_bob, u_Bob, u_bob_}
AwaitedPasswords == {Num, p_empty, p_secret, p_cred, p_hi1, p_hi2}

\* ------------------------------------------------- String.prototype.trim
WhiteSpace == {9, 10, 11, 12, 13, 32, 160, 5760, 8232, 8233, 8239, 8287,
               12288, 65279} \cup (8192..8202)

RECURSIVE TrimStart(_)
TrimStart(s) ==
  IF s = <<>> THEN <<>>
  ELSE IF Head(s) \in WhiteSpace THEN TrimStart(Tail(s)) ELSE s

RECURSIVE TrimEnd(_)
TrimEnd(s) ==
  IF s = <<>> THEN <<>>
  ELSE IF s[Len(s)] \in WhiteSpace THEN TrimEnd(SubSeq(s, 1, Len(s) - 1))
       ELSE s

trim(s) == TrimEnd(TrimStart(s))

\* ------------------------------------- Buffer.from(string): UTF-8 bytes
IsHigh(c) == c >= 55296 /\ c <= 56319
IsLow(c)  == c >= 56320 /\ c <= 57343

RECURSIVE BufferFrom(_)
BufferFrom(s) ==
  IF s = <<>> THEN <<>>
  ELSE LET c == Head(s) IN
    IF c < 128 THEN <<c>> \o BufferFrom(Tail(s))
    ELSE IF c < 2048
      THEN <<192 + (c \div 64), 128 + (c % 64)>> \o BufferFrom(Tail(s))
    ELSE IF IsHigh(c) /\ Len(s) >= 2 /\ IsLow(s[2])
      THEN LET cp == 65536 + (c - 55296) * 1024 + (s[2] - 56320) IN
           <<240 + (cp \div 262144), 128 + ((cp \div 4096) % 64),
             128 + ((cp \div 64) % 64), 128 + (cp % 64)>>
           \o BufferFrom(Tail(Tail(s)))
    ELSE IF IsHigh(c) \/ IsLow(c)
      THEN <<239, 191, 189>> \o BufferFrom(Tail(s))    \* lone surrogate: U+FFFD
    ELSE <<224 + (c \div 4096), 128 + ((c \div 64) % 64), 128 + (c % 64)>>
         \o BufferFrom(Tail(s))

\* ------------------------------------------- Buffer.toString('base64')
B64Char(i) ==
  IF i < 26 THEN 65 + i
  ELSE IF i < 52 THEN 97 + (i - 26)
  ELSE IF i < 62 THEN 48 + (i - 52)
  ELSE IF i = 62 THEN 43 ELSE 47

RECURSIVE toBase64(_)
toBase64(b) ==
  IF Len(b) = 0 THEN <<>>
  ELSE IF Len(b) = 1 THEN
    <<B64Char(b[1] \div 4), B64Char((b[1] % 4) * 16), 61, 61>>
  ELSE IF Len(b) = 2 THEN
    <<B64Char(b[1] \div 4), B64Char((b[1] % 4) * 16 + (b[2] \div 16)),
      B64Char((b[2] % 16) * 4), 61>>
  ELSE
    <<B64Char(b[1] \div 4), B64Char((b[1] % 4) * 16 + (b[2] \div 16)),
      B64Char((b[2] % 16) * 4 + (b[3] \div 64)), B64Char(b[3] % 64)>>
    \o toBase64(SubSeq(b, 4, Len(b)))

\* Buffer.from throws a TypeError on a value that is not a string
BufferFromThrows(v) == v.kind # "string"

hashPassword(password) == Str(toBase64(BufferFrom(password.s)))

comparePasswords(password, hashedPassword) ==
  LET hashed == Str(toBase64(BufferFrom(password.s))) IN
  hashed = hashedPassword

\* ------------------------------------------------------------ the store
VARIABLES
  users,        \* AuthService.users: sequence of User records
  nextUserId,   \* AuthService.nextUserId
  clock,        \* the number of the next reading of new Date()
  pending,      \* bag of the frames of the calls suspended at their await
  last,         \* the response to the call that completed most recently
  registered    \* history: the successful registrations, in order

vars == <<users, nextUserId, clock, pending, last, registered>>

\* the locals of a suspended call: op is "register" (at the await on
\* hashPassword) or "login" (at the await on comparePasswords); user holds
\* the record login found
Frame(op, username, password, user) ==
  [op |-> op, username |-> username, password |-> password, user |-> user]

NoResponse == [op |-> "none", status |-> 0, error |-> "", message |-> "",
               user |-> <<>>]

Response(op, status, error, message, user) ==
  [op |-> op, status |-> status, error |-> error, message |-> message,
   user |-> user]

BadRequestException(op, message) ==
  Response(op, 400, "Bad Request", message, <<>>)

UnauthorizedException(op, message) ==
  Response(op, 401, "Unauthorized", message, <<>>)

\* an exception that is not an HttpException: the framework answers 500
InternalServerError(op) ==
  Response(op, 500, "Internal Server Error", "Internal server error", <<>>)

\* ---------------------------------------------------------- AuthService
\* !v in JavaScript
Falsy(v) == v.kind = "undefined" \/ (v.kind = "string" /\ v.s = <<>>)

\* v.trim() on a truthy value that is not a string: v.trim is not a
\* function, a TypeError
TrimThrows(v) == ~Falsy(v) /\ v.kind # "string"

\* a test for a missing or empty value that does not trim
Blank_noTrim(v) == Falsy(v)

\* !v || v.trim().length === 0
Blank(v) == Falsy(v) \/ (v.kind = "string" /\ Len(trim(v.s)) = 0)

\* the validations with the password checked before the username
ValidationMessage_passwordFirst(username, password) ==
  IF TrimThrows(password) THEN "TypeError"
  ELSE IF Blank(password) THEN "Password is required"
  ELSE IF Len(password.s) < 6
    THEN "Password must be at least 6 characters long"
  ELSE IF TrimThrows(username) THEN "TypeError"
  ELSE IF Blank(username) THEN "Username is required"
  ELSE IF Len(username.s) < 3
    THEN "Username must be at least 3 characters long"
  ELSE ""

\* the validations with the length limits themselves rejected
ValidationMessage_offByOne(username, password) ==
  IF TrimThrows(username) THEN "TypeError"
  ELSE IF Blank(username) THEN "Username is required"
  ELSE IF Len(username.s) <= 3
    THEN "Username must be at least 3 characters long"
  ELSE IF TrimThrows(password) THEN "TypeError"
  ELSE IF Blank(password) THEN "Password is required"
  ELSE IF Len(password.s) <= 6
    THEN "Password must be at least 6 characters long"
  ELSE ""

\* the validations without the two password checks
ValidationMessage_usernameOnly(username, password) ==
  IF TrimThrows(username) THEN "TypeError"
  ELSE IF Blank(username) THEN "Username is required"
  ELSE IF Len(username.s) < 3
    THEN "Username must be at least 3 characters long"
  ELSE ""

\* the four validations of register, in program order; "" when all pass,
\* "TypeError" when evaluating one of them throws
ValidationMessage(username, password) ==
  IF TrimThrows(username) THEN "TypeError"
  ELSE IF Blank(username) THEN "Username is required"
  ELSE IF Len(username.s) < 3
    THEN "Username must be at least 3 characters long"
  ELSE IF TrimThrows(password) THEN "TypeError"
  ELSE IF Blank(password) THEN "Password is required"
  ELSE IF Len(password.s) < 6
    THEN "Password must be at least 6 characters long"
  ELSE ""

\* a lookup that compares the wrong field and so never matches a username
FindByUsername_wrongField(us, username) ==
  IF \E i \in 1..Len(us) : us[i].password = username
  THEN CHOOSE i \in 1..Len(us) :
         /\ us[i].password = username
         /\ \A j \in 1..(i - 1) : us[j].password # username
  ELSE 0

\* a lookup that trims both usernames before it compares them
FindByUsername_trimmed(us, username) ==
  IF \E i \in 1..Len(us) : trim(us[i].username.s) = trim(username.s)
  THEN CHOOSE i \in 1..Len(us) :
         /\ trim(us[i].username.s) = trim(username.s)
         /\ \A j \in 1..(i - 1) :
              trim(us[j].username.s) # trim(username.s)
  ELSE 0

\* a lookup that returns the last match instead of the first
FindByUsername_last(us, username) ==
  IF \E i \in 1..Len(us) : us[i].username = username
  THEN CHOOSE i \in 1..Len(us) :
         /\ us[i].username = username
         /\ \A j \in (i + 1)..Len(us) : us[j].username # username
  ELSE 0

\* this.users.find((u) => u.username === username): index of the first
\* match, 0 when there is none
FindByUsername(us, username) ==
  IF \E i \in 1..Len(us) : us[i].username = username
  THEN CHOOSE i \in 1..Len(us) :
         /\ us[i].username = username
         /\ \A j \in 1..(i - 1) : us[j].username # username
  ELSE 0

\* this.users.find((u) => u.id === id)
FindById(us, id) ==
  IF \E i \in 1..Len(us) : us[i].id = id
  THEN CHOOSE i \in 1..Len(us) :
         /\ us[i].id = id
         /\ \A j \in 1..(i - 1) : us[j].id # id
  ELSE 0

\* a projection that also loses the username
WithoutPassword_noUsername(user) ==
  [f \in (DOMAIN user) \ {"password", "username"} |-> user[f]]

\* a return of the whole record, password included
WithoutPassword_whole(user) == user

\* const { password: _, ...userWithoutPassword } = user
WithoutPassword(user) ==
  [f \in (DOMAIN user) \ {"password"} |-> user[f]]

\* an id read without advancing the counter
PostIncrement_none(n) == n

\* the value of this.nextUserId after this.nextUserId++
PostIncrement(n) == n + 1

NewUser(id, username, hashedPassword, createdAt) ==
  [id |-> id, username |-> username, password |-> hashedPassword,
   createdAt |-> createdAt]

\* the register calls suspended at their await
Hashing == {f \in BagToSet(pending) : f.op = "register"}
NumHashing == BagCardinality([f \in Hashing |-> CopiesIn(f, pending)])

\* the login calls suspended at their await
Comparing == {f \in BagToSet(pending) : f.op = "login"}
NumComparing == BagCardinality([f \in Comparing |-> CopiesIn(f, pending)])

\* a failure that has already taken an id from the counter
Throw_idTaken(response) ==
  /\ last' = response
  /\ nextUserId' = nextUserId + 1
  /\ UNCHANGED <<users, clock, pending, registered>>

\* throw: the call ends with the error response and no change to the store
Throw(response) ==
  /\ last' = response
  /\ UNCHANGED <<users, nextUserId, clock, pending, registered>>

\* a service whose id counter starts at 0
Init_fromZero ==
  /\ users = <<>>
  /\ nextUserId = 0
  /\ clock = 0
  /\ pending = EmptyBag
  /\ last = NoResponse
  /\ registered = <<>>

\* the service after construction
Init ==
  /\ users = <<>>
  /\ nextUserId = 1
  /\ clock = 0
  /\ pending = EmptyBag
  /\ last = NoResponse
  /\ registered = <<>>

\* the checks of register before its await: the exception one of them
\* throws, NoResponse when all pass
RegisterChecks(us, username, password) ==
  LET message == ValidationMessage(username, password)
      existingUser == FindByUsername(us, username)
  IN
  IF message = "TypeError"
  THEN InternalServerError("register")
  ELSE IF message # ""
  THEN BadRequestException("register", message)
  ELSE IF existingUser # 0
  THEN BadRequestException("register", "Username already taken")
  ELSE NoResponse

\* a register that takes its id from the counter before the await
Register_idBeforeAwait(username, password) ==
  /\ LET thrown == RegisterChecks(users, username, password) IN
     IF thrown # NoResponse
     THEN Throw(thrown)
     ELSE /\ Len(users) + NumHashing < MaxUsers
          /\ pending' = pending (+) SetToBag({
                          Frame("register", username, password, <<>>)})
          /\ nextUserId' = PostIncrement(nextUserId)
          /\ UNCHANGED <<users, clock, last, registered>>

\* a register that reserves its username before the await, by pushing a
\* record that has no credential yet
Register_reservesUsername(username, password) ==
  /\ LET thrown == RegisterChecks(users, username, password) IN
     IF thrown # NoResponse
     THEN Throw(thrown)
     ELSE /\ Len(users) + NumHashing < MaxUsers
          /\ pending' = pending (+) SetToBag({
                          Frame("register", username, password, <<>>)})
          /\ users' = Append(users, NewUser(nextUserId, username,
                                            Undefined, clock))
          /\ UNCHANGED <<nextUserId, clock, last, registered>>

\* register, from its entry to the await on hashPassword or to the throw
Register(username, password) ==
  /\ LET thrown == RegisterChecks(users, username, password) IN
     IF thrown # NoResponse
     THEN Throw(thrown)
     ELSE /\ Len(users) + NumHashing < MaxUsers
          /\ pending' = pending (+) SetToBag({
                          Frame("register", username, password, <<>>)})
          /\ UNCHANGED <<users, nextUserId, clock, last, registered>>

\* a register that looks the username up only after the await
RegisterResume_checkAfterAwait(f) ==
  /\ BagIn(f, pending)
  /\ f.op = "register"
  /\ IF FindByUsername(users, f.username) # 0
     THEN /\ last' = BadRequestException("register", "Username already taken")
          /\ UNCHANGED <<users, nextUserId, clock, registered>>
     ELSE
       LET newUser == NewUser(nextUserId, f.username,
                              hashPassword(f.password), clock)
       IN
       /\ nextUserId' = PostIncrement(nextUserId)
       /\ clock' = clock + 1
       /\ users' = Append(users, newUser)
       /\ last' = Response("register", 201, "", "Registration successful",
                           <<WithoutPassword(newUser)>>)
       /\ registered' = Append(registered,
                               [username |-> f.username,
                                password |-> f.password,
                                user |-> WithoutPassword(newUser)])
  /\ pending' = pending (-) SetToBag({f})

\* a register that inserts the new record at the front of the list
RegisterResume_unshift(f) ==
  /\ BagIn(f, pending)
  /\ f.op = "register"
  /\ LET hashedPassword == hashPassword(f.password)
         newUser == NewUser(nextUserId, f.username, hashedPassword, clock)
         userWithoutPassword == WithoutPassword(newUser)
     IN
       /\ nextUserId' = PostIncrement(nextUserId)
       /\ clock' = clock + 1
       /\ users' = <<newUser>> \o users
       /\ last' = Response("register", 201, "", "Registration successful",
                           <<userWithoutPassword>>)
       /\ registered' = Append(registered,
                               [username |-> f.username,
                                password |-> f.password,
                                user |-> userWithoutPassword])
  /\ pending' = pending (-) SetToBag({f})

\* a register that stores the password as it was supplied
RegisterResume_plaintext(f) ==
  /\ BagIn(f, pending)
  /\ f.op = "register"
  /\ LET newUser == NewUser(nextUserId, f.username, f.password, clock)
         userWithoutPassword == WithoutPassword(newUser)
     IN
       /\ nextUserId' = PostIncrement(nextUserId)
       /\ clock' = clock + 1
       /\ users' = Append(users, newUser)
       /\ last' = Response("register", 201, "", "Registration successful",
                           <<userWithoutPassword>>)
       /\ registered' = Append(registered,
                               [username |-> f.username,
                                password |-> f.password,
                                user |-> userWithoutPassword])
  /\ pending' = pending (-) SetToBag({f})

\* a register that salts the password with the username before hashing
RegisterResume_salted(f) ==
  /\ BagIn(f, pending)
  /\ f.op = "register"
  /\ LET hashedPassword == hashPassword(Str(f.username.s \o f.password.s))
         newUser == NewUser(nextUserId, f.username, hashedPassword, clock)
         userWithoutPassword == WithoutPassword(newUser)
     IN
       /\ nextUserId' = PostIncrement(nextUserId)
       /\ clock' = clock + 1
       /\ users' = Append(users, newUser)
       /\ last' = Response("register", 201, "", "Registration successful",
                           <<userWithoutPassword>>)
       /\ registered' = Append(registered,
                               [username |-> f.username,
                                password |-> f.password,
                                user |-> userWithoutPassword])
  /\ pending' = pending (-) SetToBag({f})

\* register, from the resumption after the await to the return; the
\* controller wraps the returned user into the 201 response
RegisterResume(f) ==
  /\ BagIn(f, pending)
  /\ f.op = "register"
  /\ LET hashedPassword == hashPassword(f.password)
         newUser == NewUser(nextUserId, f.username, hashedPassword, clock)
         userWithoutPassword == WithoutPassword(newUser)
     IN
       /\ nextUserId' = PostIncrement(nextUserId)
       /\ clock' = clock + 1
       /\ users' = Append(users, newUser)
       /\ last' = Response("register", 201, "", "Registration successful",
                           <<userWithoutPassword>>)
       /\ registered' = Append(registered,
                               [username |-> f.username,
                                password |-> f.password,
                                user |-> userWithoutPassword])
  /\ pending' = pending (-) SetToBag({f})

\* a login that answers an unknown username with 404 'User not found'
Login_notFound(username, password) ==
  /\ LET user == FindByUsername(users, username) IN
     IF user = 0
     THEN Throw(Response("login", 404, "Not Found", "User not found", <<>>))
     ELSE /\ NumComparing < MaxLogins
          /\ pending' = pending (+) SetToBag({
                          Frame("login", username, password,
                                <<users[user]>>)})
          /\ UNCHANGED <<users, nextUserId, clock, last, registered>>

\* login, from its entry to the await on comparePasswords or to the throw
Login(username, password) ==
  /\ LET user == FindByUsername(users, username) IN
     IF user = 0
     THEN Throw(UnauthorizedException("login",
                                      "Invalid username or password"))
     ELSE /\ NumComparing < MaxLogins
          /\ pending' = pending (+) SetToBag({
                          Frame("login", username, password,
                                <<users[user]>>)})
          /\ UNCHANGED <<users, nextUserId, clock, last, registered>>

\* the outcome of the await on comparePasswords and of what follows it
LoginResponse(f) ==
  LET user == f.user[1] IN
  IF BufferFromThrows(f.password)
  THEN InternalServerError("login")
  ELSE IF ~comparePasswords(f.password, user.password)
  THEN UnauthorizedException("login", "Invalid username or password")
  ELSE Response("login", 200, "", "Login successful",
                <<WithoutPassword(user)>>)

\* a login that takes an id from the counter when it completes
LoginResume_consumesId(f) ==
  /\ BagIn(f, pending)
  /\ f.op = "login"
  /\ last' = LoginResponse(f)
  /\ pending' = pending (-) SetToBag({f})
  /\ nextUserId' = PostIncrement(nextUserId)
  /\ UNCHANGED <<users, clock, registered>>

\* a login continuation that waits until no register is suspended
LoginResume_waitsForRegisters(f) ==
  /\ NumHashing = 0
  /\ BagIn(f, pending)
  /\ f.op = "login"
  /\ last' = LoginResponse(f)
  /\ pending' = pending (-) SetToBag({f})
  /\ UNCHANGED <<users, nextUserId, clock, registered>>

\* login, from the resumption after the await to the return or the throw
LoginResume(f) ==
  /\ BagIn(f, pending)
  /\ f.op = "login"
  /\ last' = LoginResponse(f)
  /\ pending' = pending (-) SetToBag({f})
  /\ UNCHANGED <<users, nextUserId, clock, registered>>

\* a findUserById that returns the stored record as it is
FindUserById_wholeRecord(id) ==
  /\ LET user == FindById(users, id) IN
     last' = Response("findUserById", 0, "", "",
                      IF user = 0 THEN <<>> ELSE <<users[user]>>)
  /\ UNCHANGED <<users, nextUserId, clock, pending, registered>>

\* findUserById, a synchronous method; the response holds the returned
\* user, or nothing for null
FindUserById(id) ==
  /\ LET user == FindById(users, id) IN
     last' = Response("findUserById", 0, "", "",
                      IF user = 0 THEN <<>>
                      ELSE <<WithoutPassword(users[user])>>)
  /\ UNCHANGED <<users, nextUserId, clock, pending, registered>>

Next ==
  \/ \E username \in Usernames, password \in Passwords :
       Register(username, password)
  \/ \E f \in BagToSet(pending) : RegisterResume(f)
  \/ \E username \in Usernames, password \in Passwords :
       Login(username, password)
  \/ \E f \in BagToSet(pending) : LoginResume(f)
  \/ \E id \in 0..(MaxUsers + 1) : FindUserById(id)

Spec == Init /\ [][Next]_vars

\* a client that awaits each call before it makes the next one
NextAwaited ==
  \/ \E username \in AwaitedUsernames, password \in AwaitedPasswords :
       pending = EmptyBag /\ Register(username, password)
  \/ \E f \in BagToSet(pending) : RegisterResume(f)
  \/ \E username \in AwaitedUsernames, password \in AwaitedPasswords :
       pending = EmptyBag /\ Login(username, password)
  \/ \E f \in BagToSet(pending) : LoginResume(f)

SpecAwaited == Init /\ [][NextAwaited]_vars

\* overlapping calls with the scheduling of the event loop: hashPassword and
\* comparePasswords are async functions that return without waiting, so the
\* continuation of every suspended call is a queued microtask and is run
FairUsernames == {u_ab, u_bob}
FairPasswords == {Undefined, p_12345, p_secret}

\* the frames a call on these inputs can be suspended with
\* (a login always finds the earliest record, the one with id 1)
FairFrames ==
  {Frame("register", u_bob, p_secret, <<>>)}
  \cup
  {Frame("login", u_bob, p, <<NewUser(1, u_bob, hashPassword(p_secret), 0)>>) :
     p \in FairPasswords}

NextFair ==
  \/ \E username \in FairUsernames, password \in FairPasswords :
       Register(username, password)
  \/ \E f \in BagToSet(pending) : RegisterResume(f)
  \/ \E username \in FairUsernames, password \in FairPasswords :
       Login(username, password)
  \/ \E f \in BagToSet(pending) : LoginResume(f)

SpecFair ==
  /\ Init
  /\ [][NextFair]_vars
  /\ \A f \in FairFrames :
       WF_vars(RegisterResume(f)) /\ WF_vars(LoginResume(f))

\* ------------------------------------------------------------ type check
TypeOK ==
  /\ nextUserId = Len(users) + 1
  /\ Len(registered) = Len(users)
  /\ clock = Len(users)
  /\ NumHashing + Len(users) <= MaxUsers
  /\ NumComparing <= MaxLogins

\* ================================================================ claims
\* what the specification calls a valid username and a valid password
UsernameOK(u) ==
  u.kind = "string" /\ Len(u.s) >= 3 /\ \E i \in 1..Len(u.s) : u.s[i] # 32
PasswordOK(p) ==
  p.kind = "string" /\ Len(p.s) >= 6 /\ \E i \in 1..Len(p.s) : p.s[i] # 32

ValidUsernames == {u \in Usernames : UsernameOK(u)}
ValidPasswords == {p \in Passwords : PasswordOK(p)}

Taken(u) == \E i \in 1..Len(users) : users[i].username = u
PublicFields == {"id", "username", "createdAt"}

\* C1: in every reachable state at most one record exists per username.
C1_OneRecordPerUsername ==
  \A i, j \in 1..Len(users) :
    users[i].username = users[j].username => i = j

\* C2: a register call that passed the uniqueness check before its await
\* completes when it resumes although a record with its username has been
\* inserted in the meantime: it answers 201 and appends a second record with
\* that username, so that the store holds two records sharing the username.
C2_OverlappingRegistersBothInsert ==
  [][\A f \in Hashing :
       (Taken(f.username) /\ RegisterResume(f)) =>
         /\ last'.op = "register" /\ last'.status = 201
         /\ Len(users') = Len(users) + 1
         /\ SubSeq(users', 1, Len(users)) = users
         /\ users'[Len(users')].username = f.username
         /\ Cardinality({i \in 1..Len(users') :
                           users'[i].username = f.username}) >= 2]_vars

C2_Witness ==
  /\ Len(users) = 2
  /\ users[1].username = users[2].username
  /\ Len(registered) = 2
  /\ last.op = "register" /\ last.status = 201 /\ last.user[1].id = 2

\* C3: once a register for username u has succeeded, a register with
\* username u and any valid password fails with the 400 error 'Username
\* already taken'; the call that is answered so stores nothing and leaves
\* the records in the store (the original among them) as they were.
C3_TakenUsernameRejected ==
  /\ [](\A u \in ValidUsernames, p \in ValidPasswords :
          (\E i \in 1..Len(registered) : registered[i].username = u) =>
            RegisterChecks(users, u, p) =
              [op |-> "register", status |-> 400, error |-> "Bad Request",
               message |-> "Username already taken", user |-> <<>>])
  /\ [][(pending' = pending /\ last'.message = "Username already taken") =>
          (users' = users /\ nextUserId' = nextUserId
           /\ registered' = registered)]_vars

C3_Witness ==
  /\ last.op = "register" /\ last.message = "Username already taken"
  /\ Len(registered) >= 1
  /\ \E i \in 1..Len(users) : WithoutPassword(users[i]) = registered[i].user

\* C4: all stored records have pairwise distinct positive integer ids, and
\* a record keeps its id: the id of a new record is none of the ids assigned
\* before.
C4_IdsDistinctNeverReassigned ==
  /\ [](\A i, j \in 1..Len(users) :
          /\ users[i].id \in Nat \ {0}
          /\ (users[i].id = users[j].id => i = j))
  /\ [][ /\ Len(users') >= Len(users)
         /\ \A i \in 1..Len(users) : users'[i].id = users[i].id
         /\ \A k \in (Len(users) + 1)..Len(users') :
              \A i \in 1..Len(users) : users'[k].id # users[i].id ]_vars

C4_Witness ==
  /\ Len(users) >= 2
  /\ users[1].id # users[2].id
  /\ Hashing = {}

\* C5: every value register, login and findUserById return consists of
\* exactly the id, username and createdAt of a record of the store and has
\* no password field.
C5_NoCredentialReturned ==
  last.user # <<>> =>
    /\ last.op \in {"register", "login", "findUserById"}
    /\ DOMAIN last.user[1] = PublicFields
    /\ \E i \in 1..Len(users) :
         /\ last.user[1].id = users[i].id
         /\ last.user[1].username = users[i].username
         /\ last.user[1].createdAt = users[i].createdAt

C5_Witness ==
  /\ last.op = "login" /\ last.status = 200
  /\ last.user # <<>>
  /\ \E i \in 1..Len(users) :
       /\ users[i].id = last.user[1].id
       /\ "password" \in DOMAIN users[i]

\* C6: for every register that succeeded with username u and password p, a
\* login with exactly (u, p) that starts afterwards succeeds and returns the
\* id, username and createdAt that this registration returned.  The login
\* finds its record when it starts; LoginResponse of the frame it suspends
\* with is the answer it gives when it resumes.
C6_RegisteredCanLogin ==
  [][\A i \in 1..Len(registered) :
       Login(registered[i].username, registered[i].password) =>
         \E f \in BagToSet(pending') :
           /\ pending' = pending (+) SetToBag({f})
           /\ f.op = "login"
           /\ f.username = registered[i].username
           /\ f.password = registered[i].password
           /\ LoginResponse(f).status = 200
           /\ LoginResponse(f).user = <<registered[i].user>>]_vars

\* C7: every login that does not succeed is answered the same way, 401
\* 'Invalid username or password' (the answer for a username without a
\* record), whatever username and password the request carries.
C7_FailedLoginsAlike ==
  (last.op = "login" /\ last.status # 200) =>
    /\ last.status = 401
    /\ last.error = "Unauthorized"
    /\ last.message = "Invalid username or password"

\* C8: register reports the first failing check in the order
\* username-required, username-length, password-required, password-length,
\* username-taken: a bad username is reported whatever the password is, and a
\* bad password is reported although the username is already taken.
UsernameMissing(u) ==
  u.kind = "undefined" \/ \A i \in 1..Len(u.s) : u.s[i] = 32
PasswordMissing(p) ==
  p.kind = "undefined" \/ \A i \in 1..Len(p.s) : p.s[i] = 32

FirstFailure(u, p) ==
  IF UsernameMissing(u) THEN "Username is required"
  ELSE IF Len(u.s) <= 2 THEN "Username must be at least 3 characters long"
  ELSE IF PasswordMissing(p) THEN "Password is required"
  ELSE IF Len(p.s) <= 5 THEN "Password must be at least 6 characters long"
  ELSE IF Taken(u) THEN "Username already taken"
  ELSE "none"

C9_ValidRegisterSucceeds ==
  /\ [](\A u \in ValidUsernames, p \in ValidPasswords :
          ~Taken(u) => RegisterChecks(users, u, p).status # 400)
  /\ [][\A f \in Hashing :
          RegisterResume(f) =>
            /\ last'.op = "register" /\ last'.status = 201
            /\ Len(users') = Len(users) + 1
            /\ SubSeq(users', 1, Len(users)) = users
            /\ LET r == users'[Len(users')] IN
                 /\ r.username = f.username
                 /\ r.id \in Nat \ {0}
                 /\ \A i \in 1..Len(users) : users[i].id # r.id
                 /\ last'.user = <<[id |-> r.id, username |-> r.username,
                                    createdAt |-> r.createdAt]>>]_vars

C9_Witness ==
  /\ last.op = "register" /\ last.status = 201
  /\ Len(users) = 2
  /\ users[1].username # users[2].username
  /\ last.user[1].id = users[2].id
  /\ last.user[1].username = users[2].username

\* C10: a register that fails, for whichever reason, leaves the user list
\* and the id counter as they were, so that no id is consumed.  A register
\* that fails is a register step that suspends no call: it throws before the
\* await.
C10_FailedRegisterChangesNothing ==
  [][(pending' = pending /\ last'.op = "register") =>
       /\ last'.status = 400
       /\ users' = users
       /\ nextUserId' = nextUserId
       /\ registered' = registered]_vars

C10_Witness ==
  /\ last.op = "register" /\ last.status = 400
  /\ Len(users) >= 1
  /\ nextUserId = Len(users) + 1
  /\ Hashing # {}

\* C11: login never modifies the user list or the id counter, whether it
\* succeeds or fails: a step that ends a login (answers it) or suspends one
\* leaves both unchanged, and every step that changes either of them is the
\* completion of a register call answered 201.
C11_OnlyRegisterChangesStore ==
  /\ [][(last'.op = "login" /\ (last' # last \/ pending' # pending)) =>
          (users' = users /\ nextUserId' = nextUserId)]_vars
  /\ [][(\E f \in BagToSet(pending') : f.op = "login" /\
            CopiesIn(f, pending') > CopiesIn(f, pending)) =>
          (users' = users /\ nextUserId' = nextUserId)]_vars
  /\ [][(users' # users \/ nextUserId' # nextUserId) =>
          /\ last'.op = "register" /\ last'.status = 201
          /\ \E f \in Hashing : pending' = pending (-) SetToBag({f})]_vars

C11_Witness ==
  /\ Len(users) = 2
  /\ nextUserId = 3
  /\ last.op = "login"
  /\ last.status = 401

\* C12: once a record is in the store it stays in every later state with the
\* same id, username, credential and createdAt and at the same position: no
\* step updates, reorders or deletes a record.
C12_RecordsNeverChange ==
  [][/\ Len(users') >= Len(users)
     /\ \A i \in 1..Len(users) :
          /\ users'[i].id = users[i].id
          /\ users'[i].username = users[i].username
          /\ users'[i].password = users[i].password
          /\ users'[i].createdAt = users[i].createdAt]_vars

C12_Witness ==
  /\ Len(users) = 2
  /\ users[1].id = 1 /\ users[1].createdAt = 0
  /\ users[2].id = 2 /\ users[2].createdAt = 1
  /\ users[1].username # users[2].username
  /\ last.op = "findUserById"

\* C13: a login whose username has no record at the time of its lookup fails
\* with 401 'Invalid username or password' whatever password it carries (a
\* string, an empty string or a value that is not a string); only a login
\* whose username has a record goes on to the comparison.
C13_UnknownUsernameRejected ==
  /\ [](\A f \in Comparing :
          /\ Taken(f.username)
          /\ f.user # <<>>
          /\ f.user[1].username = f.username)
  /\ [][\A username \in AwaitedUsernames, password \in AwaitedPasswords :
          (~Taken(username) /\ Login(username, password)) =>
            /\ last' = UnauthorizedException("login",
                                            "Invalid username or password")
            /\ pending' = pending]_vars
  /\ [][(pending' = pending /\ last'.op = "login") =>
          last' = UnauthorizedException("login",
                                        "Invalid username or password")]_vars

C13_Witness ==
  /\ Len(users) = 0
  /\ pending = EmptyBag
  /\ last = UnauthorizedException("login", "Invalid username or password")

\* the passwords a username was registered with
RegisteredPasswords(u) ==
  {registered[i].password :
     i \in {j \in 1..Len(registered) : registered[j].username = u}}

\* C14: a login with a registered username and a password different from
\* the one that username was registered with fails with 401 'Invalid username
\* or password', the answer an unknown username gets; stated here for the
\* passwords that are strings.
C14_WrongPasswordRejected ==
  [][\A f \in Comparing :
       (/\ LoginResume(f)
        /\ f.password.kind = "string"
        /\ RegisteredPasswords(f.username) # {}
        /\ f.password \notin RegisteredPasswords(f.username)) =>
         last' = UnauthorizedException("login",
                                       "Invalid username or password")]_vars

\* C15: on a fresh service the n-th registration to succeed receives id n:
\* the first gets 1 and each later one gets the previous id plus one, in the
\* answer and in the stored record, with no gaps.
C15_NthRegistrationGetsIdN ==
  /\ \A n \in 1..Len(registered) :
       /\ registered[n].user.id = n
       /\ users[n].id = n
  /\ (last.op = "register" /\ last.status = 201) =>
       last.user[1].id = Len(registered)

C15_Witness ==
  /\ Len(registered) = 2
  /\ registered[1].user.id = 1
  /\ registered[2].user.id = 2
  /\ last.op = "register"
  /\ last.status = 400

\* C16: the credential stored in a record is the obfuscation (Base64 of the
\* UTF-8 bytes) of the password given to the registration that created the
\* record, and it is never equal to that password; for the password "secret"
\* it is "c2VjcmV0".
C16_CredentialIsObfuscatedPassword ==
  \A i \in 1..Len(users) :
    /\ users[i].password = hashPassword(registered[i].password)
    /\ users[i].password # registered[i].password
    /\ registered[i].password = p_secret => users[i].password = p_cred

C16_Witness ==
  /\ Len(users) = 2
  /\ registered[1].password = p_hi1
  /\ registered[2].password = p_secret
  /\ users[2].password = p_cred

\* the password strings of the model
PasswordStrings ==
  {p \in Passwords \cup AwaitedPasswords : p.kind = "string"}

\* C17: for all passwords p1 and p2, matches(p1, obfuscate(p2)) is true
\* exactly when p1 = p2; stated here for every credential obfuscate(p2) that
\* a registration has stored and every password string p1.
C17_MatchesExactlyOwnPassword ==
  \A i \in 1..Len(users) : \A p1 \in PasswordStrings :
    comparePasswords(p1, users[i].password) <=>
      (p1 = registered[i].password)

\* empty and whitespace-only strings of lengths 0, 1, 3, 3, 6 and 7
BlankStrings ==
  {Str(<<>>), Str(<<32>>), u_blank3, Str(<<9, 10, 160>>), p_blank6,
   Str(<<9, 32, 10, 13, 160, 12288, 65279>>)}

\* usernames that pass both username checks
GoodUsernames == {u_bob, u_Bob, u_bob_}

\* C18: register rejects an empty or whitespace-only username with 'Username
\* is required', whatever the password, and, for a username that passes its
\* checks, an empty or whitespace-only password with 'Password is required';
\* this holds whatever the length of the blank value (also 3 or more, 6 or
\* more), so a blank value is never answered with an 'at least N characters'
\* message.
C18_BlankMeansRequired ==
  /\ \A u \in BlankStrings : \A p \in Passwords \cup {Num, p_hi1} :
       RegisterChecks(users, u, p) =
         BadRequestException("register", "Username is required")
  /\ \A u \in GoodUsernames : \A p \in BlankStrings :
       RegisterChecks(users, u, p) =
         BadRequestException("register", "Password is required")

C18_Witness ==
  /\ last = BadRequestException("register", "Password is required")
  /\ Len(users) = 1
  /\ pending = EmptyBag

\* non-blank usernames of lengths 1, 2, 3, 3 and 4, and non-blank passwords
\* of lengths 1, 5, 6, 6, 6 and 8
NonBlankUsernames == {Str(<<97>>), u_ab, u_bob, u_Bob, u_bob_}
NonBlankPasswords == {Str(<<49>>), p_12345, p_secret, p_Secret, p_hi1, p_cred}

TooShortUsername ==
  BadRequestException("register",
                      "Username must be at least 3 characters long")
TooShortPassword ==
  BadRequestException("register",
                      "Password must be at least 6 characters long")

\* C19: register accepts a non-blank username exactly when it has at least 3
\* code units and, the username being accepted, a non-blank password exactly
\* when it has at least 6: lengths 3 and 6 pass, lengths 2 and 5 are rejected
\* with 'Username must be at least 3 characters long' and 'Password must be
\* at least 6 characters long'.  A value that passes is answered by no
\* validation message (the call goes on to the uniqueness check).
C19_LengthLimitsInclusive ==
  /\ \A u \in NonBlankUsernames : \A p \in Passwords \cup {Num, p_hi1} :
       /\ (RegisterChecks(users, u, p) = TooShortUsername) <=> (Len(u.s) < 3)
       /\ Len(u.s) >= 3 =>
            RegisterChecks(users, u, p).message
              # "Username is required"
  /\ \A u \in GoodUsernames : \A p \in NonBlankPasswords :
       /\ (RegisterChecks(users, u, p) = TooShortPassword) <=> (Len(p.s) < 6)
       /\ Len(p.s) >= 6 =>
            RegisterChecks(users, u, p) =
              IF Taken(u)
              THEN BadRequestException("register", "Username already taken")
              ELSE NoResponse

C19_Witness ==
  /\ last = TooShortUsername
  /\ Len(users) = 2
  /\ users[1].username = u_bob
  /\ users[2].username = u_Bob

\* C20: every register request is answered with exactly one of two outcomes,
\* 201 with the body {message: 'Registration successful', user: PublicUser}
\* or 400 with the error 'Bad Request', and a record is added exactly when
\* the answer is 201.
C20_RegisterAnswers201Or400 ==
  /\ [](last.op = "register" =>
          \/ /\ last.status = 201
             /\ last.message = "Registration successful"
             /\ Len(last.user) = 1
             /\ DOMAIN last.user[1] = PublicFields
          \/ /\ last.status = 400
             /\ last.error = "Bad Request"
             /\ last.user = <<>>)
  /\ [][(/\ last'.op = "register"
          /\ \/ pending' = pending
             \/ \E f \in Hashing : pending' = pending (-) SetToBag({f})) =>
          ((Len(users') = Len(users) + 1) <=> (last'.status = 201))]_vars
  /\ [][(users' # users) =>
          (last'.op = "register" /\ last'.status = 201)]_vars

\* C21: every login request, whatever username and password value it
\* carries and whatever the store holds, is answered with exactly one of two
\* outcomes: 200 with the body {message: 'Login successful', user:
\* PublicUser}, or 401 with the message 'Invalid username or password'; no
\* login ends in any other error.
C21_LoginAnswers200Or401 ==
  last.op = "login" =>
    \/ /\ last.status = 200
       /\ last.message = "Login successful"
       /\ Len(last.user) = 1
       /\ DOMAIN last.user[1] = PublicFields
    \/ /\ last.status = 401
       /\ last.message = "Invalid username or password"
       /\ last.user = <<>>

\* a string with a code unit that is not white space
NotBlankString(v) ==
  v.kind = "string" /\ \E k \in 1..Len(v.s) : v.s[k] \notin WhiteSpace

\* C22: every record in the store has a username of at least 3 code units
\* that is not whitespace-only and was created from a password of at least 6
\* code units that is not whitespace-only; the same holds for the calls that
\* have passed validation and wait to insert.
C22_StoredRecordsMeetMinimums ==
  /\ \A i \in 1..Len(users) :
       /\ NotBlankString(users[i].username)
       /\ Len(users[i].username.s) >= 3
       /\ NotBlankString(registered[i].password)
       /\ Len(registered[i].password.s) >= 6
       /\ registered[i].username = users[i].username
  /\ \A f \in Hashing :
       /\ NotBlankString(f.username) /\ Len(f.username.s) >= 3
       /\ NotBlankString(f.password) /\ Len(f.password.s) >= 6

C22_Witness ==
  /\ Len(users) = 2
  /\ last = BadRequestException("register", "Username is required")

\* C23: for every registered user, a login that supplies the stored
\* credential string itself as the password fails with 401, and only the
\* original plaintext password authenticates: a login that is answered 200
\* carried a password the username was registered with.
C23_OnlyPlaintextAuthenticates ==
  [][\A f \in Comparing :
       LoginResume(f) =>
         /\ (f.password = f.user[1].password) =>
              last' = UnauthorizedException("login",
                                            "Invalid username or password")
         /\ (last'.status = 200) =>
              f.password \in RegisteredPasswords(f.username)]_vars

\* C24: the obfuscation is deterministic and unsalted: the same password
\* yields the same credential whatever the username, the store and the time
\* of the call, so any two records registered with the same password hold
\* identical credentials.
C24_SamePasswordSameCredential ==
  \A i, j \in 1..Len(users) :
    registered[i].password = registered[j].password =>
      users[i].password = users[j].password

C24_Witness ==
  /\ Len(users) = 2
  /\ registered[1].password = registered[2].password
  /\ users[1].username # users[2].username
  /\ users[1].createdAt # users[2].createdAt
  /\ users[1].password = users[2].password

\* "bob", "Bob" and "bob ": usernames that differ only in letter case or in
\* trailing white space
Variants == {u_bob, u_Bob, u_bob_}

\* C25: usernames are compared by exact, case-sensitive, untrimmed equality
\* in register and in login.  A register of one of the variants is refused
\* as taken exactly when a record with that very username exists, so the
\* variants can all be registered; a login naming a variant without a record
\* of its own fails with 401 whatever records the other variants have, and a
\* login is only ever compared with, and answered from, the record whose
\* username is the one it named.
C25_UsernamesComparedExactly ==
  /\ [](\A u \in Variants :
          RegisterChecks(users, u, p_secret) =
            IF Taken(u)
            THEN BadRequestException("register", "Username already taken")
            ELSE NoResponse)
  /\ [](\A f \in Comparing : f.user[1].username = f.username)
  /\ [][\A u \in Variants :
          (~Taken(u) /\ Login(u, p_secret)) =>
            last' = UnauthorizedException("login",
                                          "Invalid username or password")]_vars
  /\ [][\A f \in Comparing :
          (LoginResume(f) /\ last'.status = 200) =>
            last'.user[1].username = f.username]_vars

C25_Witness ==
  /\ Len(users) = 2
  /\ users[1].username = u_bob
  /\ users[2].username = u_bob_
  /\ last.op = "login"
  /\ last.status = 200
  /\ last.user[1].username = u_bob_
  /\ last.user[1].id = 2

\* C26: in every reachable state the id counter equals the number of stored
\* records plus one and the record at position i (1-based, insertion order)
\* has id i, under any interleaving: the counter moves in exactly the steps
\* in which a record is appended, by one, and never while a call is only
\* suspended.
C26_CounterIsLengthPlusOne ==
  /\ [](/\ nextUserId = Len(users) + 1
        /\ \A i \in 1..Len(users) : users[i].id = i)
  /\ [][(nextUserId' # nextUserId \/ Len(users') # Len(users)) =>
          /\ nextUserId' = nextUserId + 1
          /\ Len(users') = Len(users) + 1
          /\ users'[Len(users')].id = nextUserId]_vars

C26_Witness ==
  /\ Len(users) = 1
  /\ users[1].id = 1
  /\ nextUserId = 2
  /\ NumHashing = 1
  /\ NumComparing = 1

\* the positions of the records with username u, and the earliest of them
Holders(u) == {i \in 1..Len(users) : users[i].username = u}
Earliest(u) == CHOOSE i \in Holders(u) : \A j \in Holders(u) : i <= j

C28_VisibleOnlyAtInsert ==
  /\ [](/\ Len(users) = Len(registered)
        /\ \A i \in 1..Len(users) :
             /\ DOMAIN users[i] = PublicFields \cup {"password"}
             /\ WithoutPassword(users[i]) = registered[i].user
             /\ users[i].username = registered[i].username
             /\ users[i].password = hashPassword(registered[i].password))
  /\ [](\A f \in Hashing :
          ~Taken(f.username) =>
            /\ FindByUsername(users, f.username) = 0
            /\ RegisterChecks(users, f.username, f.password) = NoResponse)
  /\ [][\A f \in Hashing :
          (~Taken(f.username) /\ Login(f.username, f.password)) =>
            /\ last' = UnauthorizedException("login",
                                            "Invalid username or password")
            /\ pending' = pending]_vars

C28_Witness ==
  /\ Len(users) = 0
  /\ NumHashing = 2
  /\ last = UnauthorizedException("login", "Invalid username or password")

\* C29: every register and login call, under any interleaving with other
\* calls, eventually completes with a result or an error.  A call either
\* completes in its first step or is suspended at its one await; a suspended
\* call can always resume, whatever other calls are suspended (no call waits
\* on another), and it does: a frame that is suspended again and again is
\* resumed again and again, and no frame stays suspended for ever.
C29_EveryCallCompletes ==
  /\ [](BagToSet(pending) \subseteq FairFrames)
  /\ [](\A f \in Hashing : ENABLED RegisterResume(f))
  /\ [](\A f \in Comparing : ENABLED LoginResume(f))
  /\ \A f \in FairFrames :
       \/ []<>(~BagIn(f, pending))
       \/ []<><<RegisterResume(f) \/ LoginResume(f)>>_vars

C29_Witness ==
  /\ pending = EmptyBag
  /\ Len(users) = 2
  /\ users[1].username = users[2].username
  /\ last.op = "login"
  /\ last.status = 500

\* the positions of the records with id n
WithId(n) == {i \in 1..Len(users) : users[i].id = n}

\* C30: findUserById(id) returns the id, username and createdAt of the
\* stored record with that id when one exists and null otherwise, for ids
\* from 0 to one past the largest the store can hold, and never changes the
\* user list or the id counter.
C30_FindUserByIdReadsOnly ==
  [][\A id \in 0..(MaxUsers + 1) :
       FindUserById(id) =>
         /\ users' = users
         /\ nextUserId' = nextUserId
         /\ (WithId(id) = {}) => last'.user = <<>>
         /\ \A i \in WithId(id) :
              last'.user = <<[id |-> id,
                              username |-> users[i].username,
                              createdAt |-> users[i].createdAt]>>]_vars

C30_Witness ==
  /\ last.op = "findUserById"
  /\ Len(last.user) = 1
  /\ last.user[1].id = 2
  /\ Len(users) = 2
  /\ last.user[1].username = users[2].username
====
